---- MODULE Spec2Model ----
(***************************************************************************)
(* A model of define-context (src/src/index.tsx): the guarded context,    *)
(* the action-keyed reducer, the reducer hub, the model reducer and the   *)
(* state container a reducer is bound to.                                 *)
(*                                                                         *)
(* JavaScript values are records [t, n, s]; objects live in a heap and a  *)
(* value of type "object" is a reference (an index) into it, so that      *)
(* identity, copying and mutation are distinguishable.                    *)
(***************************************************************************)
EXTENDS Integers, Sequences, FiniteSets, TLC

VARIABLES
    heap,             \* the object heap: a sequence of property maps (key -> value)
    descriptor,       \* defineContext's first argument
    valueDescriptor,  \* defineContext's second argument (undefined when omitted)
    supplies,         \* values of the Context.Provider elements above the consumer, outermost first
    read,             \* outcome of the consumer's last call of the accessor
    pc,               \* position of a single reducer call: "ready" or "done"
    input,            \* the arguments of that call
    result,           \* its completion
    reducerDef,       \* the reducer a container was defined with
    initState,        \* the container's initial state
    cell,             \* the container's current state (React's hook state)
    queue,            \* events dispatched and not yet reduced by a render
    issued,           \* every event dispatched so far, in issue order
    applied,          \* every event a render has reduced so far, in the order reduced
    status,           \* "mounted", or "crashed" once a reducer threw during a render
    invoked,          \* every call of an invoker so far: the keys it was derived with, its arguments, its return value
    trail,            \* every reduction a render has made: the event, the state before, the completion, the calls
    providerValues,   \* what the Provider supplies above the consumer: the StateContext and DispatcherContext values
    consumed,         \* outcomes of the consumer's last useReducerState() and useDispatcher()
    boxes,            \* two containers side by side, each the hook state of its own component
    derived           \* the invokers a descendant derived from the dispatcher and still holds

vars == <<heap, descriptor, valueDescriptor, supplies, read, pc, input, result,
          reducerDef, initState, cell, queue, issued, applied, status, invoked, trail,
          providerValues, consumed, boxes, derived>>

ctxVars == <<descriptor, valueDescriptor, supplies, read>>
callVars == <<pc, input, result>>
boxVars == <<reducerDef, initState, cell, queue, issued, applied, status, invoked, trail>>
otherVars == <<providerValues, consumed, boxes, derived>>

----------------------------------------------------------------------------
(* Bounds *)

MaxDepth == 2      \* nested Context.Provider elements above the consumer
MaxDispatch == 3   \* events dispatched to one container
MaxHubDispatch == 2  \* events dispatched to one hub container
MaxPairDispatch == 2 \* events dispatched to each of two containers side by side
MaxTreeDispatch == 2 \* events dispatched through invokers a descendant holds
MaxDerived == 3      \* invokers and sub-dispatchers a descendant holds at once

----------------------------------------------------------------------------
(* JavaScript values *)

Undef == [t |-> "undefined", n |-> 0, s |-> ""]
Null == [t |-> "null", n |-> 0, s |-> ""]
Bool(b) == [t |-> "boolean", n |-> IF b THEN 1 ELSE 0, s |-> ""]
Num(k) == [t |-> "number", n |-> k, s |-> ""]
NaN == [t |-> "number", n |-> 0, s |-> "NaN"]
Str(x) == [t |-> "string", n |-> 0, s |-> x]
Ref(r) == [t |-> "object", n |-> r, s |-> ""]
Fn(name) == [t |-> "function", n |-> 0, s |-> name]

IsNullish(v) == v.t \in {"undefined", "null"}

\* `a ?? b`
Coalesce(a, b) == IF IsNullish(a) THEN b ELSE a

ToBoolean_nullOnly(v) == ~IsNullish(v)

\* `!value` is the negation of this: false for undefined, null, false, 0, NaN and "".
ToBoolean(v) ==
    CASE v.t \in {"undefined", "null"} -> FALSE
      [] v.t = "boolean" -> v.n = 1
      [] v.t = "number" -> v.n # 0 /\ v.s # "NaN"
      [] v.t = "string" -> v.s # ""
      [] OTHER -> TRUE

\* Completions: a normal completion carries a value, an abrupt one an error message.
NoOutcome == [kind |-> "none", val |-> Undef, msg |-> ""]
Return(v) == [kind |-> "return", val |-> v, msg |-> ""]
Throw(m) == [kind |-> "throw", val |-> Undef, msg |-> m]

\* The heap every run starts from.
BaseHeap ==
    << <<>>,
       [someValue |-> Bool(TRUE)],
       [someValue |-> Bool(FALSE)],
       [id |-> Str("0"), name |-> Str("anonymous"), counter |-> Num(0)],
       [id |-> Str("0"), name |-> Str("Bond, James"), counter |-> Num(4)],
       [counter |-> Num(0)] >>

EmptyObj == Ref(1)

----------------------------------------------------------------------------
(* Guarded context *)

UseContext_nearestPresent(provided, defaultValue) ==
    LET present == {i \in DOMAIN provided : provided[i] \notin {Null, Undef}}
    IN  IF present = {} THEN defaultValue
        ELSE provided[CHOOSE i \in present : \A j \in present : j <= i]

\* React's useContext: the value of the nearest enclosing Provider, the
\* context's default when there is none.
UseContext(provided, defaultValue) ==
    IF provided = <<>> THEN defaultValue ELSE provided[Len(provided)]

MissingMessage_alwaysSpace(d, vd) ==
    "No " \o (IF ToBoolean(vd) THEN vd.s ELSE "") \o " value was provided to " \o d \o "Context"

MissingMessage_noSpace(d, vd) ==
    "No" \o (IF ToBoolean(vd) THEN vd.s ELSE "") \o " value was provided to " \o d \o "Context"

\* `No${valueDescriptor ? ` ${valueDescriptor}` : ''} value was provided to ${descriptor}Context`
MissingMessage(d, vd) ==
    "No" \o (IF ToBoolean(vd) THEN " " \o vd.s ELSE "") \o " value was provided to " \o d \o "Context"

useDefinedContext_copy(provided, d, vd) ==
    LET value == UseContext(provided, Null)
    IN  IF ~ToBoolean(value) THEN Throw(MissingMessage(d, vd))
        ELSE IF value.t = "object" THEN Return(Ref(value.n + 1)) ELSE Return(value)

useDefinedContext(provided, d, vd) ==
    LET value == UseContext(provided, Null)   \* createContext(null)
    IN  IF ~ToBoolean(value) THEN Throw(MissingMessage(d, vd)) ELSE Return(value)

Descriptors == {"Some", "Other"}
ValueDescriptors == {Undef, Str(""), Str("such"), Str("state")}

\* Values a Provider may be given.
SuppliedValues ==
    {Undef, Null, Bool(FALSE), Bool(TRUE), Num(0), Num(1), NaN, Str(""), Str("a"),
     Ref(1), Ref(2), Ref(3), Ref(4)}

CtxInit ==
    /\ descriptor \in Descriptors
    /\ valueDescriptor \in ValueDescriptors
    /\ supplies = <<>>
    /\ read = NoOutcome

\* <Context.Provider value={v}> is rendered around the consumer's position.
Supply ==
    /\ Len(supplies) < MaxDepth
    /\ \E v \in SuppliedValues : supplies' = Append(supplies, v)
    /\ read' = NoOutcome
    /\ UNCHANGED <<heap, descriptor, valueDescriptor, callVars, boxVars, otherVars>>

\* The innermost Provider is removed from above the consumer.
Unsupply ==
    /\ supplies # <<>>
    /\ supplies' = SubSeq(supplies, 1, Len(supplies) - 1)
    /\ read' = NoOutcome
    /\ UNCHANGED <<heap, descriptor, valueDescriptor, callVars, boxVars, otherVars>>

\* The consumer renders and calls the accessor.
ReadContext ==
    /\ read = NoOutcome
    /\ read' = useDefinedContext(supplies, descriptor, valueDescriptor)
    /\ UNCHANGED <<heap, descriptor, valueDescriptor, supplies, callVars, boxVars, otherVars>>

IdleCall == pc = "idle" /\ input = <<>> /\ result = <<>>
IdleBox ==
    /\ reducerDef = <<>> /\ initState = Undef /\ cell = Undef
    /\ queue = <<>> /\ issued = <<>> /\ applied = <<>> /\ status = "unmounted"
    /\ invoked = <<>> /\ trail = <<>>
IdleProvider == providerValues = <<>> /\ consumed = <<>>
IdlePair == boxes = <<>> /\ derived = {}

ContextInit == heap = BaseHeap /\ CtxInit /\ IdleCall /\ IdleBox /\ IdleProvider /\ IdlePair
ContextNext == Supply \/ Unsupply \/ ReadContext
ContextSpec == ContextInit /\ [][ContextNext]_vars

Nearest == UseContext(supplies, Null)

----------------------------------------------------------------------------
(* JavaScript operators used by the reductions *)

Digit(d) ==
    CASE d = 0 -> "0" [] d = 1 -> "1" [] d = 2 -> "2" [] d = 3 -> "3" [] d = 4 -> "4"
      [] d = 5 -> "5" [] d = 6 -> "6" [] d = 7 -> "7" [] d = 8 -> "8" [] OTHER -> "9"

RECURSIVE NatToString(_)
NatToString(k) == IF k < 10 THEN Digit(k) ELSE NatToString(k \div 10) \o Digit(k % 10)

\* String(v); an object converts through Object.prototype.toString.
JSToString(v) ==
    CASE v.t = "undefined" -> "undefined"
      [] v.t = "null" -> "null"
      [] v.t = "boolean" -> IF v.n = 1 THEN "true" ELSE "false"
      [] v.t = "number" ->
            IF v.s = "NaN" THEN "NaN"
            ELSE IF v.n < 0 THEN "-" \o NatToString(-v.n) ELSE NatToString(v.n)
      [] v.t = "string" -> v.s
      [] OTHER -> "[object Object]"

\* Number(v). The strings that reach arithmetic here are "" or hold a letter, so a non-empty
\* string is never numeric.
ToNumber(v) ==
    CASE v.t = "null" -> Num(0)
      [] v.t = "boolean" -> Num(v.n)
      [] v.t = "number" -> v
      [] v.t = "string" -> IF v.s = "" THEN Num(0) ELSE NaN
      [] OTHER -> NaN

\* a + b
Plus(a, b) ==
    IF a.t \in {"string", "object", "function"} \/ b.t \in {"string", "object", "function"}
    THEN Str(JSToString(a) \o JSToString(b))
    ELSE LET x == ToNumber(a)
             y == ToNumber(b)
         IN  IF x.s = "NaN" \/ y.s = "NaN" THEN NaN ELSE Num(x.n + y.n)

\* a - b
Minus(a, b) ==
    LET x == ToNumber(a)
        y == ToNumber(b)
    IN  IF x.s = "NaN" \/ y.s = "NaN" THEN NaN ELSE Num(x.n - y.n)

\* The i-th argument of a call, undefined when it was not passed.
Arg(argv, i) == IF i <= Len(argv) THEN argv[i] ELSE Undef

\* The own enumerable properties an object spread or rest pattern copies from v:
\* none for null, undefined, numbers and booleans (states are never strings here).
OwnProps(h, v) == IF v.t = "object" THEN h[v.n] ELSE <<>>

\* obj.key on a property map that has no own property `key` yields undefined.
Prop(props, key) == IF key \in DOMAIN props THEN props[key] ELSE Undef

Without(props, key) == [k \in DOMAIN props \ {key} |-> props[k]]
With(props, key, v) == [k \in DOMAIN props \cup {key} |-> IF k = key THEN v ELSE props[k]]

\* What a call leaves behind: the heap, its completion and the functions it invoked.
Done(h, out, calls) == [heap |-> h, out |-> out, calls |-> calls]

\* An object literal evaluates to a reference to a new object.
NewObject(h, props) == Done(Append(h, props), Return(Ref(Len(h) + 1)), <<>>)

TypeError == "TypeError"

----------------------------------------------------------------------------
(* Reductions: the `add` and `rename` of the test suite, and one that returns nothing *)

\* add({ counter, ...rest }, amount) { return { counter: counter + amount, ...rest } }
add(h, argv) ==
    LET prevState == Arg(argv, 1)
        p == OwnProps(h, prevState)
    IN  IF IsNullish(prevState) THEN Done(h, Throw(TypeError), <<>>)
        ELSE NewObject(h, With(Without(p, "counter"), "counter",
                               Plus(Prop(p, "counter"), Arg(argv, 2))))

\* rename({ counter, ...rest }, name, penalty) {
\*   return { ...rest, name: name, counter: counter - penalty } }
rename(h, argv) ==
    LET prevState == Arg(argv, 1)
        p == OwnProps(h, prevState)
    IN  IF IsNullish(prevState) THEN Done(h, Throw(TypeError), <<>>)
        ELSE NewObject(h, With(With(Without(p, "counter"), "name", Arg(argv, 2)),
                               "counter", Minus(Prop(p, "counter"), Arg(argv, 3))))

\* A reduction whose body returns no value: (prevState) => { }
touch(h, argv) == Done(h, Return(Undef), <<>>)

\* The reduction maps reducers are defined over.
TestReductions == [add |-> Fn("add"), rename |-> Fn("rename")]
LooseReductions == [add |-> Fn("add"), touch |-> Fn("touch")]

\* What every object literal inherits: reductions[action] and reducers[reducer]
\* are ordinary property reads, so they also find these.
ObjectPrototype ==
    ("toString" :> Fn("Object.prototype.toString"))
    @@ ("hasOwnProperty" :> Fn("Object.prototype.hasOwnProperty"))
    @@ ("__proto__" :> [t |-> "object", n |-> 0, s |-> "Object.prototype"])

\* obj[key] on an object literal whose own properties are `own`.
GetProperty(own, key) ==
    IF key \in DOMAIN own THEN own[key]
    ELSE IF key \in DOMAIN ObjectPrototype THEN ObjectPrototype[key]
    ELSE Undef

\* f.call(thisObj, ...argv) for the functions of this model.
CallFunction(f, thisOwn, h, argv) ==
    LET c == CASE f.s = "add" -> add(h, argv)
               [] f.s = "rename" -> rename(h, argv)
               [] f.s = "touch" -> touch(h, argv)
               [] f.s = "Object.prototype.toString" ->
                      Done(h, Return(Str("[object Object]")), <<>>)
               [] f.s = "Object.prototype.hasOwnProperty" ->
                      Done(h, Return(Bool(JSToString(Arg(argv, 1)) \in DOMAIN thisOwn)), <<>>)
               [] OTHER -> Done(h, Throw(TypeError), <<>>)
    IN  Done(c.heap, c.out, <<f.s>>)

\* own[key]?.(...argv): undefined when the property is null or undefined, a
\* TypeError when it is anything else that cannot be called.
OptionalCall(own, key, h, argv) ==
    LET f == GetProperty(own, key)
    IN  IF IsNullish(f) THEN Done(h, Return(Undef), <<>>)
        ELSE IF f.t # "function" THEN Done(h, Throw(TypeError), <<>>)
        ELSE CallFunction(f, own, h, argv)

OrPrevState_asReturned(c, prevState) == c

\* `call ?? prevState`, an abrupt completion passing through.
OrPrevState(c, prevState) ==
    IF c.out.kind = "throw" THEN c
    ELSE Done(c.heap, Return(Coalesce(c.out.val, prevState)), c.calls)

----------------------------------------------------------------------------
(* Reducers *)

\* An action event: { action, args } for a plain reducer, { reducer, action, args }
\* for a hub. A plain event has no `reducer` property; read as a property key that
\* is "undefined".
NoKey == "undefined"
Event(a, args) == [reducer |-> NoKey, action |-> a, args |-> args]
HubEvent(r, a, args) == [reducer |-> r, action |-> a, args |-> args]

\* Reducer functions, by how they were built.
ReductionReducer(R) == [kind |-> "reduction", R |-> R, M |-> <<>>]   \* defineReduction(R).reducer
ModelReducer == [kind |-> "model", R |-> <<>>, M |-> <<>>]           \* modelReducer
Hub(M) == [kind |-> "hub", R |-> <<>>, M |-> M]                      \* fuseReducers(M)
Eraser == [kind |-> "eraser", R |-> <<>>, M |-> <<>>]                \* written by hand

definedReduction_dropState(R, h, prevState, ev) ==
    OrPrevState(OptionalCall(R, ev.action, h, ev.args), prevState)

\* (prevState, { action, args }) => reductions[action]?.(prevState, ...args) ?? prevState
definedReduction(R, h, prevState, ev) ==
    OrPrevState(OptionalCall(R, ev.action, h, <<prevState>> \o ev.args), prevState)

\* The keys reduceModel<SomeState, 'id'>() leaves out of its action type.
ExcludedKeys == {"id"}

modelReducer_accumulate(h, prevModel, ev) ==
    NewObject(h, With(OwnProps(h, prevModel), ev.action,
                      Plus(Prop(OwnProps(h, prevModel), ev.action), Arg(ev.args, 1))))

modelReducer_keepsExisting(h, prevModel, ev) ==
    NewObject(h, IF ev.action \in DOMAIN OwnProps(h, prevModel) THEN OwnProps(h, prevModel)
                 ELSE With(OwnProps(h, prevModel), ev.action, Arg(ev.args, 1)))

modelReducer_guarded(h, prevModel, ev) ==
    IF ev.action \in ExcludedKeys
    THEN Done(h, Throw("TypeError"), <<>>)
    ELSE NewObject(h, With(OwnProps(h, prevModel), ev.action, Arg(ev.args, 1)))

modelReducer_patch(h, prevModel, ev) ==
    NewObject(h, With(<<>>, ev.action, Arg(ev.args, 1)))

modelReducer_inPlace(h, prevModel, ev) ==
    IF prevModel.t = "object"
    THEN Done([h EXCEPT ![prevModel.n] = With(@, ev.action, Arg(ev.args, 1))],
              Return(prevModel), <<>>)
    ELSE NewObject(h, With(OwnProps(h, prevModel), ev.action, Arg(ev.args, 1)))

\* modelReducer(prevModel, { action: key, args: [value] }) {
\*   return { ...prevModel, [key]: value } }
modelReducer(h, prevModel, ev) ==
    NewObject(h, With(OwnProps(h, prevModel), ev.action, Arg(ev.args, 1)))

\* A reducer a caller wrote by hand and fused into a hub:
\* (prevState, { action }) => action === "erase" ? null : prevState
eraser(h, prevState, ev) ==
    Done(h, Return(IF ev.action = "erase" THEN Null ELSE prevState), <<>>)

subReducerCall(name) == "reducer " \o name

RECURSIVE Apply(_, _, _, _)

fuseReducers_wrongKey(M, h, prevState, ev) ==
    LET sub == Event(ev.action, ev.args)
        other == IF \E k \in DOMAIN M : k # ev.reducer
                 THEN CHOOSE k \in DOMAIN M : k # ev.reducer
                 ELSE ev.reducer
        c == IF ev.reducer \in DOMAIN M
             THEN LET a == Apply(M[other], h, prevState, sub)
                  IN  Done(a.heap, a.out, <<subReducerCall(other)>> \o a.calls)
             ELSE OptionalCall(M, ev.reducer, h, <<prevState>>)
    IN  OrPrevState(c, prevState)

\* (prevState, { action, reducer, args }) =>
\*   reducers[reducer]?.(prevState, { action, args }) ?? prevState
fuseReducers(M, h, prevState, ev) ==
    LET sub == Event(ev.action, ev.args)
        c == IF ev.reducer \in DOMAIN M
             THEN LET a == Apply(M[ev.reducer], h, prevState, sub)
                  IN  Done(a.heap, a.out, <<subReducerCall(ev.reducer)>> \o a.calls)
             ELSE OptionalCall(M, ev.reducer, h, <<prevState>>)
    IN  OrPrevState(c, prevState)

\* reducer(prevState, event) for a reducer function of any of the kinds above.
Apply(red, h, prevState, ev) ==
    CASE red.kind = "reduction" -> definedReduction(red.R, h, prevState, ev)
      [] red.kind = "model" -> modelReducer(h, prevState, ev)
      [] red.kind = "hub" -> fuseReducers(red.M, h, prevState, ev)
      [] OTHER -> eraser(h, prevState, ev)

\* fuseReducers({ A: defineReduction(...).reducer, B: eraser })
HubAB == Hub([A |-> ReductionReducer(TestReductions), B |-> Eraser])

\* fuseReducers({ inner: fuseReducers({ A, B }), B }): a hub one of whose
\* sub-reducers is itself a hub
NestedHub == Hub([inner |-> HubAB, B |-> Eraser])

enhanceModel_swapped(reductions) ==
    Hub([action |-> ModelReducer, model |-> ReductionReducer(reductions)])

\* enhanceModel(reductions)
enhanceModel(reductions) ==
    Hub([model |-> ModelReducer, action |-> ReductionReducer(reductions)])

\* The reducer of defineModelHub(reductions): defineReducerHub(enhanceModel(reductions))
defineModelHub(reductions) == enhanceModel(reductions)

----------------------------------------------------------------------------
(* One call of a reducer, on inputs drawn from bounded sets *)

CallStates == {Ref(1), Ref(4), Ref(5), Ref(6), Null, Undef, Num(7)}

ActionNames ==
    {"add", "rename", "touch", "counter", "name", "id", "erase", "unknown",
     "toString", "hasOwnProperty", "__proto__"}

ReducerNames == {"A", "B", "C", "inner", "model", "action", "toString", "__proto__"}

ArgTuples ==
    { <<>>, <<Num(1)>>, <<Num(0)>>, <<Num(5)>>, <<Undef>>,
      <<Str("Bond, James"), Num(1)>>, <<Num(3), Str("Chiffre, Le")>> }

PlainReducers == {ReductionReducer(TestReductions), ReductionReducer(LooseReductions), ModelReducer}
HubReducers == {HubAB, NestedHub, enhanceModel(TestReductions)}

CallInputs ==
    { [red |-> r, state |-> s, event |-> Event(a, g)] :
        r \in PlainReducers, s \in CallStates, a \in ActionNames, g \in ArgTuples }
    \cup
    { [red |-> r[1], state |-> s, event |-> HubEvent(r[2], a, g)] :
        r \in HubReducers \X ReducerNames, s \in CallStates, a \in ActionNames, g \in ArgTuples }

CallInit ==
    /\ pc = "ready"
    /\ input \in CallInputs
    /\ result = Done(BaseHeap, NoOutcome, <<>>)

Call(kind) ==
    /\ pc = "ready"
    /\ input.red.kind = kind
    /\ result' = Apply(input.red, heap, input.state, input.event)
    /\ heap' = result'.heap
    /\ pc' = "done"
    /\ UNCHANGED <<input, ctxVars, boxVars, otherVars>>

CallReduction == Call("reduction")
CallModelReducer == Call("model")
CallHub == Call("hub")

IdleCtx == descriptor = "" /\ valueDescriptor = Undef /\ supplies = <<>> /\ read = NoOutcome

ReducerInit == heap = BaseHeap /\ CallInit /\ IdleCtx /\ IdleBox /\ IdleProvider /\ IdlePair
ReducerNext == CallReduction \/ CallModelReducer \/ CallHub
ReducerSpec == ReducerInit /\ [][ReducerNext]_vars

----------------------------------------------------------------------------
(* The state container: React.useReducer(reducer, initState) bound by defineReducer *)

\* React's dispatch returns nothing, and so does the invoker that returns its result.
InvokerReturn == Undef

\* One call of an invoker: the keys the invoker was derived with, and its arguments.
Invocation(path, args) == [path |-> path, args |-> args, returned |-> InvokerReturn]

dispatcher_firstArgOnly(action, args) == Event(action, SubSeq(args, 1, 1))

\* dispatcher(action)(...args) hands React's dispatch the event { action, args }.
dispatcher(action, args) == Event(action, args)

dispatcherHub_noReducer(reducer, action, args) == Event(action, args)

\* dispatcher(reducer)(action)(...args) hands it { reducer, action, args }.
dispatcherHub(reducer, action, args) == HubEvent(reducer, action, args)

\* One reduction of a render, as the trail keeps it.
Step(ev, before, c) == [event |-> ev, before |-> before, after |-> c.out, calls |-> c.calls]

RECURSIVE ReduceQueue(_, _, _, _)
\* React reduces the pending events of a hook in the order they were dispatched,
\* each against the state the previous one produced; a throw ends the render.
\* The completion's `calls` lists the reductions made.
ReduceQueue(red, h, s, q) ==
    IF q = <<>> THEN Done(h, Return(s), <<>>)
    ELSE LET c == Apply(red, h, s, Head(q))
             step == Step(Head(q), s, c)
         IN  IF c.out.kind = "throw" THEN Done(c.heap, c.out, <<step>>)
             ELSE LET r == ReduceQueue(red, c.heap, c.out.val, Tail(q))
                  IN  Done(r.heap, r.out, <<step>> \o r.calls)

ContainerReducers ==
    {ReductionReducer(TestReductions), ReductionReducer(LooseReductions), ModelReducer}
InitStates == {Ref(4), Ref(6)}
DispatchNames == {"add", "rename", "touch", "counter", "unknown", "__proto__"}
DispatchArgs == { <<Num(1)>>, <<Str("Bond, James"), Num(1)>> }

\* useReducer(reducer, initState) on the first render of the component.
Mounted(red, init) ==
    /\ reducerDef = red
    /\ initState = init
    /\ cell = init
    /\ queue = <<>>
    /\ issued = <<>>
    /\ applied = <<>>
    /\ status = "mounted"
    /\ invoked = <<>>
    /\ trail = <<>>

\* useDefinedReducer(initState) on the first render of the component.
BoxInit == \E red \in ContainerReducers, init \in InitStates : Mounted(red, init)

\* dispatch(event): React queues the event on the hook it belongs to.
Enqueue(inv, ev) ==
    /\ queue' = Append(queue, ev)
    /\ issued' = Append(issued, ev)
    /\ invoked' = Append(invoked, inv)

Dispatch_dropsPending ==
    /\ status = "mounted"
    /\ Len(issued) < MaxDispatch
    /\ \E a \in DispatchNames, g \in DispatchArgs :
          /\ queue' = <<dispatcher(a, g)>>
          /\ issued' = Append(issued, dispatcher(a, g))
          /\ invoked' = Append(invoked, Invocation(<<a>>, g))
    /\ UNCHANGED <<heap, reducerDef, initState, cell, applied, status, trail,
                   ctxVars, callVars, otherVars>>

\* An invoker obtained from the dispatcher is called: (...args) => dispatch({ action, args })
Dispatch ==
    /\ status = "mounted"
    /\ Len(issued) < MaxDispatch
    /\ \E a \in DispatchNames, g \in DispatchArgs :
          Enqueue(Invocation(<<a>>, g), dispatcher(a, g))
    /\ UNCHANGED <<heap, reducerDef, initState, cell, applied, status, trail,
                   ctxVars, callVars, otherVars>>

\* useReducer on a later render: the pending events are reduced and the result
\* becomes the hook's state.
Reduce ==
    LET c == ReduceQueue(reducerDef, heap, cell, queue)
    IN  /\ heap' = c.heap
        /\ trail' = trail \o c.calls
        /\ IF c.out.kind = "throw"
           THEN \* the error leaves the render: the component is unmounted
                /\ status' = "crashed"
                /\ UNCHANGED <<cell, queue, applied>>
           ELSE /\ cell' = c.out.val
                /\ applied' = applied \o queue
                /\ queue' = <<>>
                /\ status' = status

\* The component renders again: useReducer reduces what was dispatched since the
\* last render and returns the new state.
Render ==
    /\ status = "mounted"
    /\ queue # <<>>
    /\ Reduce
    /\ UNCHANGED <<reducerDef, initState, issued, invoked, ctxVars, callVars, otherVars>>

Init == heap = BaseHeap /\ BoxInit /\ IdleCtx /\ IdleCall /\ IdleProvider /\ IdlePair
Next == Dispatch \/ Render
Spec == Init /\ [][Next]_vars

----------------------------------------------------------------------------
(* A hub container: useReducerHub(initState) of defineReducerHub *)

HubContainerReducers == {HubAB, defineModelHub(TestReductions)}
HubDispatchActions == {"add", "rename", "counter", "erase"}

\* The reducer names a caller derives sub-dispatchers with: those of the hub and
\* one the hub does not have.
HubDispatchReducers(red) == DOMAIN red.M \cup {"C"}

\* useReducerHub(initState) on the first render of the component.
HubInit ==
    /\ heap = BaseHeap
    /\ \E red \in HubContainerReducers, init \in InitStates : Mounted(red, init)
    /\ IdleCtx /\ IdleCall /\ IdleProvider /\ IdlePair

\* An invoker of a sub-dispatcher is called:
\* (...args) => dispatch({ reducer, action, args })
HubDispatch ==
    /\ status = "mounted"
    /\ Len(issued) < MaxHubDispatch
    /\ \E r \in HubDispatchReducers(reducerDef), a \in HubDispatchActions, g \in DispatchArgs :
          Enqueue(Invocation(<<r, a>>, g), dispatcherHub(r, a, g))
    /\ UNCHANGED <<heap, reducerDef, initState, cell, applied, status, trail,
                   ctxVars, callVars, otherVars>>

HubNext == HubDispatch \/ Render
HubSpec == HubInit /\ [][HubNext]_vars

----------------------------------------------------------------------------
(* Two containers side by side: two components each calling useReducer(initState)
   or useReducerHub(initState), in one heap *)

PairReducers == {ReductionReducer(TestReductions), ModelReducer, defineModelHub(TestReductions)}
PairNames == {"add", "counter"}
PairArgs == { <<Num(1)>> }

\* The hook state React keeps for one call of useReducer(reducer, initState).
Box(red, init) ==
    [reducerDef |-> red, initState |-> init, cell |-> init,
     queue |-> <<>>, issued |-> <<>>, status |-> "mounted"]

\* dispatch(event) of one container
Submitted(b, ev) == [b EXCEPT !.queue = Append(@, ev), !.issued = Append(@, ev)]

\* The events a caller can submit through the dispatcher of container b.
PairEvents(b) ==
    IF b.reducerDef.kind = "hub"
    THEN {dispatcherHub("action", "add", g) : g \in PairArgs}
            \cup {dispatcherHub("model", "counter", g) : g \in PairArgs}
    ELSE {dispatcher(a, g) : a \in PairNames, g \in PairArgs}

Rendered_cellPerDefinition(bs, i, c) ==
    [j \in DOMAIN bs |->
        IF bs[j].reducerDef = bs[i].reducerDef /\ bs[j].initState = bs[i].initState
        THEN IF c.out.kind = "throw" THEN [bs[j] EXCEPT !.status = "crashed"]
             ELSE [bs[j] EXCEPT !.cell = c.out.val, !.queue = IF j = i THEN <<>> ELSE @]
        ELSE bs[j]]

\* The render of the component of container i: its pending events are reduced
\* into its own cell.
Rendered(bs, i, c) ==
    [bs EXCEPT ![i] = IF c.out.kind = "throw" THEN [@ EXCEPT !.status = "crashed"]
                      ELSE [@ EXCEPT !.cell = c.out.val, !.queue = <<>>]]

PairInit ==
    /\ heap = BaseHeap
    /\ \E r1 \in PairReducers, r2 \in PairReducers, i1 \in InitStates, i2 \in InitStates :
          boxes = <<Box(r1, i1), Box(r2, i2)>>
    /\ IdleCtx /\ IdleCall /\ IdleBox /\ IdleProvider /\ derived = {}

PairDispatch(i) ==
    /\ boxes[i].status = "mounted"
    /\ Len(boxes[i].issued) < MaxPairDispatch
    /\ \E ev \in PairEvents(boxes[i]) : boxes' = [boxes EXCEPT ![i] = Submitted(@, ev)]
    /\ UNCHANGED <<heap, ctxVars, callVars, boxVars, providerValues, consumed, derived>>

PairRender(i) ==
    /\ boxes[i].status = "mounted"
    /\ boxes[i].queue # <<>>
    /\ LET c == ReduceQueue(boxes[i].reducerDef, heap, boxes[i].cell, boxes[i].queue)
       IN  /\ heap' = c.heap
           /\ boxes' = Rendered(boxes, i, c)
    /\ UNCHANGED <<ctxVars, callVars, boxVars, providerValues, consumed, derived>>

PairNext == \E i \in {1, 2} : PairDispatch(i) \/ PairRender(i)
PairSpec == PairInit /\ [][PairNext]_vars

----------------------------------------------------------------------------
(* The provider binder: defineProvider(descriptor, useDefinedReducer) *)

StateValueDescriptor == Str("state")
DispatcherValueDescriptor == Str("dispatcher")

\* The dispatcher useDefinedReducer returns: (action) => (...args) => dispatch({ action, args })
DispatcherValue == Fn("dispatcher")

\* No Provider is rendered above the consumer.
NoProvider == [state |-> <<>>, dispatcher |-> <<>>]

\* <StateContext.Provider value={state}>
\*   <DispatcherContext.Provider value={dispatcher}>{children}
Provider(state, disp) == [state |-> <<state>>, dispatcher |-> <<disp>>]

useReducerState_noDescriptor(pv, d) == useDefinedContext(pv.state, d, Undef)

\* defineContext<M>(descriptor, 'state')[1]
useReducerState(pv, d) == useDefinedContext(pv.state, d, StateValueDescriptor)

\* defineContext<D>(descriptor, 'dispatcher')[1]
useDispatcher(pv, d) == useDefinedContext(pv.dispatcher, d, DispatcherValueDescriptor)

NotConsumed == [state |-> NoOutcome, dispatcher |-> NoOutcome]

ProviderReducers == {ReductionReducer(TestReductions), ModelReducer}
ProviderInitStates == {Ref(5), Ref(6), Num(0)}
ProviderNames == {"add", "rename", "counter", "unknown"}
ProviderArgs == { <<Num(1)>>, <<Str("Chiffre, Le"), Num(3)>> }

\* defineProvider(descriptor, useDefinedReducer) was called; the consumer is
\* rendered, so far with no Provider around it.
ProviderInit ==
    /\ heap = BaseHeap
    /\ descriptor \in Descriptors
    /\ valueDescriptor = Undef /\ supplies = <<>> /\ read = NoOutcome
    /\ reducerDef \in ProviderReducers
    /\ initState \in ProviderInitStates
    /\ cell = Undef
    /\ queue = <<>> /\ issued = <<>> /\ applied = <<>> /\ invoked = <<>> /\ trail = <<>>
    /\ status = "unmounted"
    /\ providerValues = NoProvider
    /\ consumed = NotConsumed
    /\ IdleCall /\ IdlePair

\* <Provider initState={initState}> is rendered around the consumer: its first
\* render calls useDefinedReducer(initState) and supplies what that returns.
MountProvider ==
    /\ status = "unmounted"
    /\ status' = "mounted"
    /\ cell' = initState
    /\ providerValues' = Provider(initState, DispatcherValue)
    /\ consumed' = NotConsumed
    /\ UNCHANGED <<heap, reducerDef, initState, queue, issued, applied, invoked, trail,
                   ctxVars, callVars, boxes, derived>>

\* A throw during a render takes the tree down.
AfterRead(outcome) == IF outcome.kind = "throw" THEN "crashed" ELSE status

\* A consumer renders and calls useReducerState(). A render pass renders the
\* Provider before its descendants, so nothing is pending when they read.
ReadState ==
    /\ status \in {"unmounted", "mounted"}
    /\ queue = <<>>
    /\ consumed.state = NoOutcome
    /\ LET outcome == useReducerState(providerValues, descriptor)
       IN  /\ consumed' = [consumed EXCEPT !.state = outcome]
           /\ status' = AfterRead(outcome)
    /\ UNCHANGED <<heap, reducerDef, initState, cell, queue, issued, applied, invoked, trail,
                   providerValues, ctxVars, callVars, boxes, derived>>

\* A consumer renders and calls useDispatcher().
ReadDispatcher ==
    /\ status \in {"unmounted", "mounted"}
    /\ queue = <<>>
    /\ consumed.dispatcher = NoOutcome
    /\ LET outcome == useDispatcher(providerValues, descriptor)
       IN  /\ consumed' = [consumed EXCEPT !.dispatcher = outcome]
           /\ status' = AfterRead(outcome)
    /\ UNCHANGED <<heap, reducerDef, initState, cell, queue, issued, applied, invoked, trail,
                   providerValues, ctxVars, callVars, boxes, derived>>

\* A descendant calls an invoker of the dispatcher it read from the context.
ChildDispatch ==
    /\ status = "mounted"
    /\ consumed.dispatcher = Return(DispatcherValue)
    /\ Len(issued) < MaxDispatch
    /\ \E a \in ProviderNames, g \in ProviderArgs :
          Enqueue(Invocation(<<a>>, g), dispatcher(a, g))
    /\ UNCHANGED <<heap, reducerDef, initState, cell, applied, status, trail,
                   providerValues, consumed, ctxVars, callVars, boxes, derived>>

\* The Provider renders again: useDefinedReducer returns the reduced state, which
\* is supplied anew, and the descendants render again.
ProviderRender ==
    /\ status = "mounted"
    /\ queue # <<>>
    /\ Reduce
    /\ providerValues' = IF status' = "mounted" THEN Provider(cell', DispatcherValue)
                         ELSE providerValues
    /\ consumed' = NotConsumed
    /\ UNCHANGED <<reducerDef, initState, issued, invoked, ctxVars, callVars, boxes, derived>>

ProviderNext == MountProvider \/ ReadState \/ ReadDispatcher \/ ChildDispatch \/ ProviderRender
ProviderSpec == ProviderInit /\ [][ProviderNext]_vars

----------------------------------------------------------------------------
(* A descendant that keeps the invokers it derived: dispatcher(action) and
   dispatcher(reducer)(action) are closures over React's dispatch *)

TreeReducers == {ReductionReducer(TestReductions), defineModelHub(TestReductions)}
TreeInitStates == {Ref(6), Num(0)}
TreeNames == {"add", "counter"}
TreeArgs == { <<Num(1)>>, <<Num(5)>> }

\* The keys a caller may derive with, one after the other: an action name for a
\* dispatcher of defineReducer, a reducer name and then an action name for one
\* of defineReducerHub.
PathLength == IF reducerDef.kind = "hub" THEN 2 ELSE 1
FirstKeys == IF reducerDef.kind = "hub" THEN DOMAIN reducerDef.M ELSE TreeNames

\* A closure a descendant holds: the keys it was derived with, and the state of
\* the container the descendant saw when it derived it.
Closure(path, seen) == [path |-> path, seen |-> seen]

\* The event the invoker with these keys dispatches.
InvokerEvent(path, args) ==
    IF Len(path) = 2 THEN dispatcherHub(path[1], path[2], args)
    ELSE dispatcher(path[1], args)

\* One call of a closure held since an earlier render.
HeldInvocation(d, args, now) ==
    [path |-> d.path, args |-> args, returned |-> InvokerReturn,
     derivedAt |-> d.seen, calledAt |-> now]

\* defineProvider(descriptor, useDefinedReducer) was called for a reducer of
\* defineReducer or of defineReducerHub; no Provider is rendered yet.
TreeInit ==
    /\ heap = BaseHeap
    /\ descriptor \in Descriptors
    /\ valueDescriptor = Undef /\ supplies = <<>> /\ read = NoOutcome
    /\ reducerDef \in TreeReducers
    /\ initState \in TreeInitStates
    /\ cell = Undef
    /\ queue = <<>> /\ issued = <<>> /\ applied = <<>> /\ invoked = <<>> /\ trail = <<>>
    /\ status = "unmounted"
    /\ providerValues = NoProvider
    /\ consumed = NotConsumed
    /\ IdleCall /\ IdlePair

Derive_dispatches ==
    /\ status = "mounted"
    /\ consumed.dispatcher = Return(DispatcherValue)
    /\ Cardinality(derived) < MaxDerived
    /\ \E k \in FirstKeys :
          /\ derived' = derived \cup {Closure(<<k>>, cell)}
          /\ queue' = Append(queue, InvokerEvent(<<k>>, <<>>))
    /\ UNCHANGED <<heap, reducerDef, initState, cell, issued, applied, status,
                   invoked, trail, providerValues, consumed, ctxVars, callVars, boxes>>

\* A descendant calls the dispatcher it read from the context with a key,
\* dispatcher(key), and keeps what it returns.
Derive ==
    /\ status = "mounted"
    /\ consumed.dispatcher = Return(DispatcherValue)
    /\ Cardinality(derived) < MaxDerived
    /\ \E k \in FirstKeys : derived' = derived \cup {Closure(<<k>>, cell)}
    /\ UNCHANGED <<heap, reducerDef, initState, cell, queue, issued, applied, status,
                   invoked, trail, providerValues, consumed, ctxVars, callVars, boxes>>

\* A descendant calls a sub-dispatcher it holds with an action name,
\* dispatcher(reducer)(action), and keeps what it returns.
DeriveFromSub ==
    /\ status = "mounted"
    /\ Cardinality(derived) < MaxDerived
    /\ \E d \in derived, a \in TreeNames :
          /\ Len(d.path) < PathLength
          /\ derived' = derived \cup {Closure(Append(d.path, a), cell)}
    /\ UNCHANGED <<heap, reducerDef, initState, cell, queue, issued, applied, status,
                   invoked, trail, providerValues, consumed, ctxVars, callVars, boxes>>

InvokeHeld_onSeenState ==
    /\ status = "mounted"
    /\ Len(issued) < MaxTreeDispatch
    /\ \E d \in derived, g \in TreeArgs :
          /\ Len(d.path) = PathLength
          /\ Enqueue(HeldInvocation(d, g, cell), InvokerEvent(d.path, g))
          /\ cell' = IF queue = <<>> THEN d.seen ELSE cell
    /\ UNCHANGED <<heap, reducerDef, initState, applied, status, trail,
                   providerValues, consumed, derived, ctxVars, callVars, boxes>>

\* A descendant calls an invoker it holds, at any later time:
\* (...args) => dispatch({ action, args })
InvokeHeld ==
    /\ status = "mounted"
    /\ Len(issued) < MaxTreeDispatch
    /\ \E d \in derived, g \in TreeArgs :
          /\ Len(d.path) = PathLength
          /\ Enqueue(HeldInvocation(d, g, cell), InvokerEvent(d.path, g))
    /\ UNCHANGED <<heap, reducerDef, initState, cell, applied, status, trail,
                   providerValues, consumed, derived, ctxVars, callVars, boxes>>

TreeNext ==
    \/ MountProvider \/ ReadState \/ ReadDispatcher
    \/ Derive \/ DeriveFromSub \/ InvokeHeld \/ ProviderRender
TreeSpec == TreeInit /\ [][TreeNext]_vars

----------------------------------------------------------------------------
(* Two model updates of one record: modelReducer applied to its own results *)

UpdateStates == {Ref(1), Ref(4), Ref(5), Ref(6)}
UpdateKeys == {"counter", "name", "extra", "__proto__"}
UpdateValues == {Num(0), Num(5), Str("Chiffre, Le"), Undef}
UpdateEvents == {Event(k, <<v>>) : k \in UpdateKeys, v \in UpdateValues}

\* Nothing applied yet: `first` and `second` are the two updates each applied to
\* the state, `firstSecond` and `secondFirst` one applied to the result of the other.
NoUpdates ==
    [first |-> NoOutcome, second |-> NoOutcome,
     firstSecond |-> NoOutcome, secondFirst |-> NoOutcome]

UpdateInit ==
    /\ heap = BaseHeap
    /\ pc = "ready"
    /\ input \in [state : UpdateStates, first : UpdateEvents, second : UpdateEvents]
    /\ result = NoUpdates
    /\ IdleCtx /\ IdleBox /\ IdleProvider /\ IdlePair

\* modelReducer(prevModel, event), its result kept under `slot`
Update(slot, prevModel, event) ==
    /\ pc = "ready"
    /\ result[slot] = NoOutcome
    /\ LET c == modelReducer(heap, prevModel, event)
       IN  /\ heap' = c.heap
           /\ result' = [result EXCEPT ![slot] = c.out]
    /\ pc' = IF \A s \in DOMAIN result' : result'[s] # NoOutcome THEN "done" ELSE "ready"
    /\ UNCHANGED <<input, ctxVars, boxVars, otherVars>>

UpdateFirst == Update("first", input.state, input.first)
UpdateSecond == Update("second", input.state, input.second)

\* The second update applied to what the first returned.
UpdateFirstThenSecond ==
    /\ result.first.kind = "return"
    /\ Update("firstSecond", result.first.val, input.second)

\* The first update applied to what the second returned.
UpdateSecondThenFirst ==
    /\ result.second.kind = "return"
    /\ Update("secondFirst", result.second.val, input.first)

UpdateNext ==
    UpdateFirst \/ UpdateSecond \/ UpdateFirstThenSecond \/ UpdateSecondThenFirst
UpdateSpec == UpdateInit /\ [][UpdateNext]_vars

----------------------------------------------------------------------------
(* Properties of the guarded context (ContextSpec) *)

\* The values the accessor treats as missing, listed one by one.
AbsentValues == {Null, Undef, Bool(FALSE), Num(0), NaN, Str("")}

Accessed == read.kind # "none"

\* C1: when the value supplied for the consumer's position is not null, undefined
\* or a falsy scalar (the empty object included), the accessor returns exactly
\* that value and does not fail.
C1_PresentValueReturned ==
    (Accessed /\ supplies # <<>> /\ Nearest \notin AbsentValues)
        => (read.kind = "return" /\ read.val = Nearest /\ read.msg = "")

C1_Witness ==
    /\ read = Return(EmptyObj)
    /\ Nearest = EmptyObj
    /\ DOMAIN heap[EmptyObj.n] = {}

\* C2: when nothing was supplied (the default null is read) or null or undefined
\* was supplied, the accessor raises an error whose message is exactly
\* "No {valueDescriptor} value was provided to {descriptor}Context" for the
\* descriptors given to defineContext, and returns no value.
C2_AbsentValueThrows ==
    (/\ Accessed
     /\ (supplies = <<>> \/ Nearest \in {Null, Undef})
     /\ valueDescriptor.t = "string" /\ valueDescriptor.s # "")
        => /\ read.kind = "throw"
           /\ read.val = Undef
           /\ read.msg = "No " \o valueDescriptor.s \o " value was provided to "
                              \o descriptor \o "Context"
           /\ (descriptor = "Some" /\ valueDescriptor = Str("such"))
                 => read.msg = "No such value was provided to SomeContext"

C2_Witness ==
    /\ supplies = <<Null>>
    /\ descriptor = "Some" /\ valueDescriptor = Str("such")
    /\ read = Throw("No such value was provided to SomeContext")

----------------------------------------------------------------------------
(* Properties of single reducer calls (ReducerSpec) *)

Called(kind) == pc = "done" /\ input.red.kind = kind

\* The call returned the state it was given and touched nothing.
StateUnchanged == result.out = Return(input.state) /\ heap = BaseHeap

\* C4: for a reducer built by defineReduction over R, every state and every
\* action name that is not a key of R, the reducer returns the state unchanged
\* and raises no error.
C4_MissIsNoOp ==
    (Called("reduction") /\ input.event.action \notin DOMAIN input.red.R)
        => StateUnchanged

\* What calling the reduction named K directly on (state, ...args) gives.
Direct(K, s, args) ==
    CASE K = "add" -> add(BaseHeap, <<s>> \o args)
      [] K = "rename" -> rename(BaseHeap, <<s>> \o args)
      [] OTHER -> touch(BaseHeap, <<s>> \o args)

Hit == Called("reduction") /\ input.event.action \in DOMAIN input.red.R

\* C5 as stated: for every action name K in keys(R), reducer(s, {action: K, args})
\* equals R[K](s, ...args), and no other reduction of R is invoked.
C5_HitEqualsReduction ==
    Hit => LET d == Direct(input.event.action, input.state, input.event.args)
           IN  /\ result.out = d.out
               /\ heap = d.heap
               /\ result.calls = <<input.event.action>>

\* C5 as amended: the reducer's result is R[K](s, ...args) with the arguments in
\* the same order, except that when the reduction returns null or undefined the
\* reducer returns s; only R[K] is invoked.
C5_HitEqualsReductionOrState ==
    Hit => LET d == Direct(input.event.action, input.state, input.event.args)
           IN  /\ result.out = IF d.out.kind = "return" /\ IsNullish(d.out.val)
                               THEN Return(input.state) ELSE d.out
               /\ heap = d.heap
               /\ result.calls = <<input.event.action>>
               /\ (/\ input.state = Ref(4)
                   /\ input.event = Event("rename", <<Str("Bond, James"), Num(1)>>))
                     => /\ result.out.kind = "return"
                        /\ heap[result.out.val.n] =
                             [id |-> Str("0"), name |-> Str("Bond, James"), counter |-> Num(-1)]

C5_Witness ==
    /\ Hit
    /\ input.state = Ref(4)
    /\ input.event = Event("rename", <<Str("Bond, James"), Num(1)>>)
    /\ result.out.kind = "return"
    /\ heap[result.out.val.n].counter = Num(-1)

\* C6: for a hub fused from miss-silent reducers {A, B}, an event whose reducer
\* name is not a key of the hub leaves the state unchanged, and so does an event
\* addressed to A whose action name is unknown to A; neither raises an error.
C6_HubMissIsNoOp ==
    (/\ Called("hub")
     /\ input.red = HubAB
     /\ \/ input.event.reducer \notin DOMAIN input.red.M
        \/ /\ input.event.reducer = "A"
           /\ input.event.action \notin DOMAIN input.red.M.A.R)
        => StateUnchanged

Delegated == Called("hub") /\ input.event.reducer \in DOMAIN input.red.M

\* What the sub-reducer registered under the event's reducer name gives when it
\* is called directly with (state, {action, args}).
DirectSub ==
    Apply(input.red.M[input.event.reducer], BaseHeap, input.state,
          Event(input.event.action, input.event.args))

\* C7 as stated: for every reducer name H in keys(M), hubReducer(s, {reducer: H,
\* action, args}) equals M[H](s, {action, args}), and no sub-reducer other than
\* M[H] is invoked.
C7_HubEqualsSubReducer ==
    Delegated =>
        /\ result.out = DirectSub.out
        /\ heap = DirectSub.heap
        /\ result.calls = <<subReducerCall(input.event.reducer)>> \o DirectSub.calls

\* C7 as amended: the hub's result is M[H](s, {action, args}), except that when
\* the sub-reducer returns null or undefined the hub returns s; only M[H] is
\* invoked.
C7_HubEqualsSubReducerOrState ==
    Delegated =>
        /\ result.out = IF DirectSub.out.kind = "return" /\ IsNullish(DirectSub.out.val)
                        THEN Return(input.state) ELSE DirectSub.out
        /\ heap = DirectSub.heap
        /\ result.calls = <<subReducerCall(input.event.reducer)>> \o DirectSub.calls

C7_Witness ==
    /\ Delegated
    /\ input.red = HubAB
    /\ input.state = Ref(6)
    /\ input.event = HubEvent("A", "add", <<Num(1)>>)
    /\ result.calls = <<"reducer A", "add">>
    /\ result.out.kind = "return"
    /\ heap[result.out.val.n] = [counter |-> Num(1)]

ModelCall == Called("model") /\ input.state.t = "object" /\ Len(input.event.args) >= 1

\* C8: for every record state, key and value, modelReducer(state, {action: key,
\* args: [value]}) returns a record whose property key equals value and whose
\* every other property equals that of state; no property is added or removed
\* when key is already a property of state.
C8_ModelReplace ==
    ModelCall =>
        /\ result.out.kind = "return"
        /\ result.out.val.t = "object"
        /\ LET old == BaseHeap[input.state.n]
               new == heap[result.out.val.n]
               key == input.event.action
           IN  /\ key \in DOMAIN new
               /\ new[key] = input.event.args[1]
               /\ \A k \in DOMAIN old \ {key} : k \in DOMAIN new /\ new[k] = old[k]
               /\ DOMAIN new = DOMAIN old \cup {key}
               /\ key \in DOMAIN old => DOMAIN new = DOMAIN old

C8_Witness ==
    /\ ModelCall
    /\ input.state = Ref(4)
    /\ input.event = Event("counter", <<Num(5)>>)
    /\ result.out.kind = "return"
    /\ heap[result.out.val.n] =
         [id |-> Str("0"), name |-> Str("anonymous"), counter |-> Num(5)]

\* C9: after modelReducer returns, the object passed as state has exactly the
\* properties and values it had before, and the returned record is a distinct
\* copy, also when the new value equals the old one.
C9_ModelInputNotMutated ==
    ModelCall =>
        /\ SubSeq(heap, 1, Len(BaseHeap)) = BaseHeap
        /\ result.out.kind = "return"
        /\ result.out.val.t = "object"
        /\ result.out.val # input.state
        /\ result.out.val.n > Len(BaseHeap)

C9_Witness ==
    /\ ModelCall
    /\ input.state = Ref(4)
    /\ input.event = Event("counter", <<Num(0)>>)
    /\ result.out.val # input.state
    /\ heap[result.out.val.n] = heap[input.state.n]
    /\ heap[input.state.n] = BaseHeap[input.state.n]

----------------------------------------------------------------------------
(* Properties of the container (Spec) *)

RECURSIVE Folded(_)
\* reducer(...reducer(reducer(initState, e1), e2)..., en) for the events e1..en,
\* evaluated from the heap the container started with.
Folded(events) ==
    IF events = <<>> THEN Done(BaseHeap, Return(initState), <<>>)
    ELSE LET before == Folded(SubSeq(events, 1, Len(events) - 1))
         IN  Apply(reducerDef, before.heap, before.out.val, events[Len(events)])

Settled == status = "mounted" /\ queue = <<>>

\* C10: for a container seeded with initState and events e1..en dispatched in that
\* order, the state observed after the last one is
\* reducer(...reducer(reducer(initState, e1), e2)..., en): each event is applied
\* exactly once, in issue order, against the state the previous one produced.
C10_DispatchOrder ==
    /\ applied \o queue = issued
    /\ Settled =>
          /\ applied = issued
          /\ cell = Folded(issued).out.val
          /\ heap = Folded(issued).heap
          /\ (/\ reducerDef = ReductionReducer(TestReductions)
              /\ initState = Ref(6)
              /\ issued = <<Event("add", <<Num(1)>>), Event("add", <<Num(1)>>)>>)
                => heap[cell.n] = [counter |-> Num(2)]

C10_Witness ==
    /\ Settled
    /\ reducerDef = ReductionReducer(TestReductions)
    /\ initState = Ref(6)
    /\ issued = <<Event("add", <<Num(1)>>), Event("add", <<Num(1)>>)>>
    /\ heap[cell.n].counter = Num(2)

\* C11: dispatcher(name)(...args) submits exactly one event {action: name, args}
\* with the given arguments in the given order to the owning container and
\* returns no value; with several arguments, as in rename(name, penalty), each
\* reaches the reduction in its declared position.
C11_DispatcherForwards ==
    /\ Len(issued) = Len(invoked)
    /\ \A i \in DOMAIN invoked :
          /\ issued[i].action = invoked[i].path[1]
          /\ issued[i].args = invoked[i].args
          /\ issued[i].reducer = NoKey
          /\ invoked[i].returned = Undef
    /\ (/\ Settled
        /\ reducerDef = ReductionReducer(TestReductions)
        /\ initState = Ref(4)
        /\ invoked = <<Invocation(<<"rename">>, <<Str("Bond, James"), Num(1)>>)>>)
          => heap[cell.n] = [id |-> Str("0"), name |-> Str("Bond, James"), counter |-> Num(-1)]

C11_Witness ==
    /\ Settled
    /\ reducerDef = ReductionReducer(TestReductions)
    /\ initState = Ref(4)
    /\ invoked = <<Invocation(<<"rename">>, <<Str("Bond, James"), Num(1)>>)>>
    /\ issued = <<Event("rename", <<Str("Bond, James"), Num(1)>>)>>
    /\ heap[cell.n].name = Str("Bond, James")
    /\ heap[cell.n].counter = Num(-1)

----------------------------------------------------------------------------
(* Properties of the provider binder (ProviderSpec) *)

\* A Provider is rendered above the consumer.
Inside == providerValues # NoProvider /\ providerValues # <<>>

\* C12: after a descendant invoked the dispatcher obtained from useDispatcher(),
\* the next read of useReducerState() by a descendant (a read made with nothing
\* pending) yields reducer(previous state, submitted event), here the reducer
\* folded over everything submitted; the state the Provider supplies at first
\* is initState.
C12_ProviderPropagates ==
    /\ (Inside /\ issued = <<>>) => providerValues.state = <<initState>>
    /\ (Inside /\ issued # <<>> /\ queue = <<>> /\ consumed.state.kind # "none")
          => consumed.state = Return(Folded(issued).out.val)

\* C13: inside a mounted Provider the accessors always succeed: for every
\* initState and after every sequence of dispatches, useReducerState() obtains
\* the container's current state and useDispatcher() the dispatcher.
C13_AccessorsSucceedInside ==
    Inside =>
        /\ consumed.state.kind # "none" => consumed.state = Return(cell)
        /\ consumed.dispatcher.kind # "none" => consumed.dispatcher = Return(DispatcherValue)

\* C14: outside any Provider, useReducerState() raises
\* "No state value was provided to {descriptor}Context" and useDispatcher()
\* raises "No dispatcher value was provided to {descriptor}Context".
C14_AccessorsThrowOutside ==
    (~Inside) =>
        /\ consumed.state.kind # "none" =>
              consumed.state = Throw("No state value was provided to " \o descriptor \o "Context")
        /\ consumed.dispatcher.kind # "none" =>
              consumed.dispatcher =
                 Throw("No dispatcher value was provided to " \o descriptor \o "Context")

C14_Witness ==
    /\ providerValues = NoProvider
    /\ descriptor = "Some"
    /\ consumed.state = Throw("No state value was provided to SomeContext")

\* What C12 and C13 say, for the states the accessor does not take for missing.
ProviderTruthyCase ==
    (Inside /\ queue = <<>> /\ consumed.state.kind # "none" /\ ToBoolean(cell))
        => /\ consumed.state = Return(cell)
           /\ cell = Folded(issued).out.val

----------------------------------------------------------------------------
(* Properties of the hub container (HubSpec) *)

Range(seq) == {seq[i] : i \in DOMAIN seq}

\* C15: dispatcher(reducerName)(actionName)(...args) submits exactly one event
\* {reducer: reducerName, action: actionName, args}; a sub-dispatcher obtained
\* for reducerName changes the state only through the sub-reducer registered
\* under reducerName, never through another sub-reducer of the hub.
C15_SubDispatcherScoped ==
    /\ Len(issued) = Len(invoked)
    /\ \A i \in DOMAIN invoked :
          /\ Len(invoked[i].path) = 2
          /\ issued[i] = [reducer |-> invoked[i].path[1], action |-> invoked[i].path[2],
                          args |-> invoked[i].args]
    /\ \A i \in DOMAIN trail :
          LET H == trail[i].event.reducer
          IN  /\ \A k \in DOMAIN reducerDef.M :
                    subReducerCall(k) \in Range(trail[i].calls) => k = H
              /\ trail[i].after # Return(trail[i].before)
                    => /\ H \in DOMAIN reducerDef.M
                       /\ trail[i].calls[1] = subReducerCall(H)

C15_Witness ==
    /\ Settled
    /\ reducerDef = HubAB
    /\ initState = Ref(6)
    /\ invoked = <<Invocation(<<"A", "add">>, <<Num(1)>>)>>
    /\ issued = <<HubEvent("A", "add", <<Num(1)>>)>>
    /\ trail[1].calls = <<"reducer A", "add">>
    /\ heap[cell.n] = [counter |-> Num(1)]

RECURSIVE Routed(_)
\* The events applied one after the other to one state, each by its own route:
\* under "action" the reduction it names, under "model" the replacement of the
\* property it names, anything else leaving the state as it is.
Routed(events) ==
    IF events = <<>> THEN Done(BaseHeap, Return(initState), <<>>)
    ELSE LET b == Routed(SubSeq(events, 1, Len(events) - 1))
             e == events[Len(events)]
         IN  CASE e.reducer = "action" /\ e.action = "add" ->
                      add(b.heap, <<b.out.val>> \o e.args)
               [] e.reducer = "action" /\ e.action = "rename" ->
                      rename(b.heap, <<b.out.val>> \o e.args)
               [] e.reducer = "model" ->
                      NewObject(b.heap, With(b.heap[b.out.val.n], e.action, Arg(e.args, 1)))
               [] OTHER -> b

ModelHubMounted == reducerDef = defineModelHub(TestReductions) /\ status = "mounted"

\* C16: in a container from defineModelHub(reductions), an event under "action"
\* is applied by the reduction it names and an event under "model" replaces the
\* property it names, and any interleaving of the two is applied in issue order
\* to one and the same state, so that each route sees what the other has set.
C16_ModelHubRoutes ==
    ModelHubMounted =>
        /\ [i \in DOMAIN trail |-> trail[i].event] = applied
        /\ applied \o queue = issued
        /\ \A i \in DOMAIN trail :
              /\ trail[i].before = (IF i = 1 THEN initState ELSE trail[i - 1].after.val)
              /\ trail[i].after.kind = "return"
        /\ queue = <<>> =>
              /\ cell = Routed(issued).out.val
              /\ heap = Routed(issued).heap

C16_Witness ==
    /\ ModelHubMounted
    /\ queue = <<>>
    /\ initState = Ref(4)
    /\ issued = <<HubEvent("model", "counter", <<Num(1)>>), HubEvent("action", "add", <<Num(1)>>)>>
    /\ heap[cell.n] = [id |-> Str("0"), name |-> Str("anonymous"), counter |-> Num(2)]

C16_WitnessActionFirst ==
    /\ ModelHubMounted
    /\ queue = <<>>
    /\ initState = Ref(4)
    /\ issued = <<HubEvent("action", "rename", <<Str("Bond, James"), Num(1)>>),
                  HubEvent("model", "counter", <<Num(1)>>)>>
    /\ heap[cell.n] = [id |-> Str("0"), name |-> Str("Bond, James"), counter |-> Num(1)]

----------------------------------------------------------------------------
(* Properties of two containers side by side (PairSpec) *)

\* What a reader of container b sees as its state in heap h.
Contents(h, b) == IF b.cell.t = "object" THEN h[b.cell.n] ELSE b.cell

\* Container b alone: its own events applied to its own initState.
Alone(b) ==
    LET c == ReduceQueue(b.reducerDef, BaseHeap, b.initState, b.issued)
    IN  IF c.out.val.t = "object" THEN c.heap[c.out.val.n] ELSE c.out.val

\* C17: each useReducer / useReducerHub call owns its own state cell: for two
\* containers, also two of the same reducer definition and the same initState,
\* a dispatch to one, or the render that applies it, leaves the other's cell,
\* queue and state as they were, whatever the interleaving; the state of each
\* is the one its own events alone produce.
C17_ContainerIsolation ==
    /\ [](\A i \in DOMAIN boxes :
             (boxes[i].status = "mounted" /\ boxes[i].queue = <<>>)
                => Contents(heap, boxes[i]) = Alone(boxes[i]))
    /\ [][\A i \in DOMAIN boxes : \A j \in DOMAIN boxes \ {i} :
             boxes'[i] # boxes[i]
                => /\ boxes'[j] = boxes[j]
                   /\ Contents(heap', boxes'[j]) = Contents(heap, boxes[j])]_vars

C17_Witness ==
    /\ boxes # <<>>
    /\ boxes[1].reducerDef = boxes[2].reducerDef
    /\ boxes[1].reducerDef = ReductionReducer(TestReductions)
    /\ boxes[1].initState = Ref(6) /\ boxes[2].initState = Ref(6)
    /\ boxes[1].issued = <<Event("add", <<Num(1)>>), Event("add", <<Num(1)>>)>>
    /\ boxes[2].issued = <<Event("add", <<Num(1)>>)>>
    /\ boxes[1].queue = <<>> /\ boxes[2].queue = <<>>
    /\ Contents(heap, boxes[1]) = [counter |-> Num(2)]
    /\ Contents(heap, boxes[2]) = [counter |-> Num(1)]

----------------------------------------------------------------------------
(* Properties of the model reducer with excluded keys (ReducerSpec) *)

ExcludedCall == Called("model") /\ input.event.action \in ExcludedKeys

\* C18: the model reducer of reduceModel<State, 'id'>() given an event whose
\* action is the excluded key 'id' does not reject it and raises no error: it
\* returns a new record in which that property is the event's first argument
\* and every other property is the one of the state, as for any other key.
C18_ExcludedKeyNotGuarded ==
    ExcludedCall =>
        /\ result.out.kind = "return"
        /\ result.out.val.t = "object"
        /\ result.out.val # input.state
        /\ LET old == IF input.state.t = "object" THEN BaseHeap[input.state.n] ELSE <<>>
               key == input.event.action
           IN  heap[result.out.val.n] =
                   [k \in DOMAIN old \cup {key} |->
                       IF k = key THEN Arg(input.event.args, 1) ELSE old[k]]

C18_Witness ==
    /\ ExcludedCall
    /\ input.state = Ref(4)
    /\ input.event = Event("id", <<Num(5)>>)
    /\ result.out.kind = "return"
    /\ heap[result.out.val.n] =
           [id |-> Num(5), name |-> Str("anonymous"), counter |-> Num(0)]

----------------------------------------------------------------------------
(* Properties of hubs of hubs (ReducerSpec) *)

RECURSIVE Known(_, _)
\* The event names something reducer red has, at every level it is passed down:
\* a reduction by its action name, a hub by its reducer name and then whatever
\* the sub-reducer is given, { action, args }.
Known(red, ev) ==
    CASE red.kind = "reduction" -> ev.action \in DOMAIN red.R
      [] red.kind = "eraser" -> ev.action = "erase"
      [] red.kind = "hub" ->
            /\ ev.reducer \in DOMAIN red.M
            /\ Known(red.M[ev.reducer], Event(ev.action, ev.args))
      [] OTHER -> TRUE

NestedCall == Called("hub") /\ input.red = NestedHub

\* C19: a hub fused from miss-silent sub-reducers, one of them itself a fused
\* hub, returns the state unchanged and raises no error for every event whose
\* (reducer, action) pair is unknown at any level.
C19_NestedMissIsNoOp ==
    (NestedCall /\ ~Known(input.red, input.event)) => StateUnchanged

\* The same for the reducer names that are no property of any object.
NestedMissOfAbsentName ==
    (NestedCall /\ ~Known(input.red, input.event)
        /\ input.event.reducer \notin DOMAIN ObjectPrototype)
        => StateUnchanged

----------------------------------------------------------------------------
(* Properties of nested supplies (ContextSpec) *)

Nested == Len(supplies) >= 2
Innermost == supplies[Len(supplies)]
Outer == {supplies[i] : i \in 1..(Len(supplies) - 1)}

\* C20: under nested supplies of one Context the accessor uses only the value of
\* the nearest enclosing supply: when that value is null or undefined it fails
\* even if an outer supply is present, and when it is present it returns that
\* value and never an outer one.
C20_NearestSupplyWins ==
    (Nested /\ Accessed) =>
        /\ Innermost \in {Null, Undef} => read.kind = "throw"
        /\ Innermost \notin AbsentValues => read = Return(Innermost)
        /\ read.kind = "return" => read.val = Innermost
        /\ read = useDefinedContext(<<Innermost>>, descriptor, valueDescriptor)

C20_Witness ==
    /\ supplies = <<Ref(2), Null>>
    /\ descriptor = "Some" /\ valueDescriptor = Str("such")
    /\ read = Throw("No such value was provided to SomeContext")

C20_WitnessPresent ==
    /\ supplies = <<Ref(2), Ref(3)>>
    /\ read = Return(Ref(3))

----------------------------------------------------------------------------
(* Properties of the message without a value descriptor (ContextSpec) *)

NoValueDescriptor == valueDescriptor \in {Undef, Str("")}

\* C21: when defineContext was given no valueDescriptor, or an empty one, the
\* accessor's failure message is exactly "No value was provided to
\* {descriptor}Context": single spaces between the words, no extra word and no
\* doubled space.
C21_MessageWithoutValueDescriptor ==
    (Accessed /\ NoValueDescriptor /\ (supplies = <<>> \/ Nearest \in {Null, Undef}))
        => /\ read.kind = "throw"
           /\ read.msg = "No value was provided to " \o descriptor \o "Context"
           /\ descriptor = "Other" => read.msg = "No value was provided to OtherContext"

C21_Witness ==
    /\ supplies = <<>>
    /\ descriptor = "Other" /\ valueDescriptor = Undef
    /\ read = Throw("No value was provided to OtherContext")

C21_WitnessEmpty ==
    /\ supplies = <<Undef>>
    /\ descriptor = "Some" /\ valueDescriptor = Str("")
    /\ read = Throw("No value was provided to SomeContext")

----------------------------------------------------------------------------
(* Properties of a descendant that reads, derives and invokes (TreeSpec) *)

\* A step in which a descendant called useReducerState() or useDispatcher().
ReadStep == consumed' # consumed /\ consumed' # NotConsumed

\* A step in which a descendant derived a sub-dispatcher or an invoker.
DeriveStep == derived' # derived

\* C22: a container's state changes only when an invoker was called: reading
\* the state or the dispatcher through the accessors, whether the read succeeds
\* or fails, and deriving dispatcher(name) or dispatcher(reducerName)(actionName)
\* without calling it, leave the container's state, its pending events and every
\* supplied context value as they were.
C22_OnlyDispatchChangesState ==
    /\ []((providerValues # NoProvider /\ issued = <<>>)
             => /\ cell = initState
                /\ heap = BaseHeap
                /\ providerValues = Provider(initState, DispatcherValue))
    /\ [][/\ (ReadStep \/ DeriveStep)
                => UNCHANGED <<cell, heap, queue, issued, applied, providerValues, supplies, boxes>>
          /\ (status = "mounted"
                 /\ (cell' # cell \/ heap' # heap \/ providerValues' # providerValues))
                => (queue # <<>> /\ invoked # <<>>)]_vars

C22_Witness ==
    /\ status = "mounted"
    /\ reducerDef.kind = "hub"
    /\ initState = Ref(6)
    /\ consumed.state = Return(Ref(6))
    /\ consumed.dispatcher = Return(DispatcherValue)
    /\ Closure(<<"action">>, Ref(6)) \in derived
    /\ Closure(<<"action", "add">>, Ref(6)) \in derived
    /\ issued = <<>>
    /\ cell = Ref(6)
    /\ heap = BaseHeap

C22_WitnessFailedRead ==
    /\ status = "crashed"
    /\ initState = Num(0)
    /\ consumed.state.kind = "throw"
    /\ cell = Num(0)
    /\ providerValues = Provider(Num(0), DispatcherValue)

\* C23: an invoker derived at an earlier point and called after other
\* dispatches have changed the state submits to the same container, and its
\* event is reduced against the state the container holds when it is applied,
\* the result of the event before it, not against the state that was current
\* when the invoker was derived.
C23_HeldInvokerUsesCurrentState ==
    /\ Len(invoked) = Len(issued)
    /\ \A i \in DOMAIN invoked :
          /\ issued[i].action = invoked[i].path[Len(invoked[i].path)]
          /\ issued[i].args = invoked[i].args
          /\ Len(invoked[i].path) = 2 => issued[i].reducer = invoked[i].path[1]
    /\ applied \o queue = issued
    /\ Len(trail) = Len(applied)
    /\ \A i \in DOMAIN trail :
          /\ trail[i].event = issued[i]
          /\ trail[i].before = (IF i = 1 THEN initState ELSE trail[i - 1].after.val)
    /\ Settled => cell = Folded(issued).out.val

C23_Witness ==
    /\ Settled
    /\ reducerDef = ReductionReducer(TestReductions)
    /\ initState = Ref(6)
    /\ Len(invoked) = 2
    /\ invoked[1].path = <<"add">> /\ invoked[1].args = <<Num(1)>>
    /\ invoked[2].path = <<"add">> /\ invoked[2].args = <<Num(5)>>
    /\ invoked[2].derivedAt = Ref(6)
    /\ invoked[2].calledAt # Ref(6)
    /\ trail[2].before = invoked[2].calledAt
    /\ heap[cell.n] = [counter |-> Num(6)]

C23_WitnessHub ==
    /\ Settled
    /\ reducerDef.kind = "hub"
    /\ initState = Ref(6)
    /\ Len(invoked) = 2
    /\ invoked[1].path = <<"action", "add">> /\ invoked[1].args = <<Num(5)>>
    /\ invoked[2].path = <<"action", "add">> /\ invoked[2].args = <<Num(1)>>
    /\ invoked[2].derivedAt = Ref(6)
    /\ invoked[2].calledAt # Ref(6)
    /\ heap[cell.n] = [counter |-> Num(6)]

----------------------------------------------------------------------------
(* Properties of the null-coalescing of results (ReducerSpec) *)

\* The call reached a reduction that returns undefined.
ReductionReturnedUndefined ==
    /\ Called("reduction")
    /\ input.event.action = "touch"
    /\ "touch" \in DOMAIN input.red.R

\* The call reached a sub-reducer that returns null.
SubReducerReturnedNull ==
    /\ Called("hub")
    /\ input.event.reducer \in DOMAIN input.red.M
    /\ input.red.M[input.event.reducer] = Eraser
    /\ input.event.action = "erase"

\* C24: in the reducer of defineReduction and in the hub of fuseReducers, when
\* the invoked reduction or sub-reducer returns null or undefined the previous
\* state is returned instead; so a reducer of either kind given a state that is
\* neither null nor undefined never returns null or undefined, and a container
\* seeded with such a state holds such a state after every dispatch.
C24_NullishResultKeepsState ==
    /\ (ReductionReturnedUndefined \/ SubReducerReturnedNull)
          => /\ result.out = Return(input.state)
             /\ heap = BaseHeap
    /\ (/\ pc = "done"
        /\ input.red.kind \in {"reduction", "hub"}
        /\ result.out.kind = "return"
        /\ input.state \notin {Null, Undef})
          => result.out.val \notin {Null, Undef}

C24_Witness ==
    /\ SubReducerReturnedNull
    /\ input.red = HubAB
    /\ input.state = Ref(5)
    /\ result.calls = <<subReducerCall("B")>>
    /\ result.out = Return(Ref(5))

C24_WitnessReduction ==
    /\ ReductionReturnedUndefined
    /\ input.state = Num(7)
    /\ result.calls = <<"touch">>
    /\ result.out = Return(Num(7))

\* The same seen on the containers: the state a container holds.
ContainerNeverNullish ==
    (status = "mounted" /\ initState \notin {Null, Undef}) => cell \notin {Null, Undef}

----------------------------------------------------------------------------
(* Properties of repeated model updates (UpdateSpec) *)

\* The record an update returned, property by property.
Record(slot) == heap[result[slot].val.n]

Updated(slots) == \A s \in slots : result[s].kind = "return" /\ result[s].val.t = "object"

\* C25: for every record state, key and value, applying modelReducer with
\* {action: key, args: [value]} twice in a row yields a record equal, property
\* by property, to applying it once.
C25_ModelUpdateIdempotent ==
    (input.first = input.second /\ result.firstSecond # NoOutcome)
        => /\ Updated({"first", "firstSecond"})
           /\ result.firstSecond.val # result.first.val
           /\ Record("firstSecond") = Record("first")

C25_Witness ==
    /\ input.state = Ref(4)
    /\ input.first = Event("counter", <<Num(5)>>)
    /\ input.second = input.first
    /\ Updated({"first", "firstSecond"})
    /\ Record("first") = [id |-> Str("0"), name |-> Str("anonymous"), counter |-> Num(5)]
    /\ Record("firstSecond") = Record("first")

\* C26: model updates of distinct keys commute, (k1, v1) then (k2, v2) giving a
\* record equal to (k2, v2) then (k1, v1); updates of one key are
\* last-writer-wins, (k, v1) then (k, v2) giving a record equal to (k, v2) alone.
C26_ModelUpdatesCommute ==
    /\ (input.first.action # input.second.action
          /\ result.firstSecond # NoOutcome /\ result.secondFirst # NoOutcome)
          => /\ Updated({"firstSecond", "secondFirst"})
             /\ Record("firstSecond") = Record("secondFirst")
    /\ (input.first.action = input.second.action
          /\ result.firstSecond # NoOutcome /\ result.second # NoOutcome)
          => /\ Updated({"firstSecond", "second"})
             /\ Record("firstSecond") = Record("second")

C26_Witness ==
    /\ pc = "done"
    /\ input.state = Ref(4)
    /\ input.first = Event("counter", <<Num(5)>>)
    /\ input.second = Event("name", <<Str("Chiffre, Le")>>)
    /\ Record("firstSecond") = [id |-> Str("0"), name |-> Str("Chiffre, Le"), counter |-> Num(5)]
    /\ Record("secondFirst") = Record("firstSecond")
    /\ result.firstSecond # result.secondFirst

C26_WitnessSameKey ==
    /\ pc = "done"
    /\ input.state = Ref(6)
    /\ input.first = Event("counter", <<Num(5)>>)
    /\ input.second = Event("counter", <<Undef>>)
    /\ Record("firstSecond") = [counter |-> Undef]
    /\ Record("second") = [counter |-> Undef]
    /\ Record("secondFirst") = [counter |-> Num(5)]

====
